---- MODULE Spec2Model ----
(***************************************************************************)
(* Model of src/app.py, a Streamlit page that normalises a ticker symbol   *)
(* (format_ticker), fetches price history and company info through a      *)
(* one-hour memoising wrapper (get_stock_data under st.cache_data) and     *)
(* renders one of three views.                                             *)
(*                                                                         *)
(* Strings that the code inspects character by character (the ticker) are  *)
(* sequences of one-character strings.  Time is counted in clock ticks of  *)
(* one second.  A Python value is a record [t, n, s]: its type tag, its    *)
(* number (in units of 1/10000 for a float) and its text.                  *)
(***************************************************************************)
EXTENDS Integers, Sequences, FiniteSets, TLC

VARIABLES
    now,            \* the clock read by datetime.now() and by the cache
    cache,          \* st.cache_data's store: key -> [created, value, messages]
    calls,          \* get_stock_data calls made so far, oldest first
    runs,           \* script runs (render cycles) made so far, oldest first
    ticker_input,   \* st.text_input's value
    selected_range, \* st.selectbox's value
    start_pick,     \* the Custom "Start Date" widget: a day number or Unset
    end_pick,       \* the Custom "End Date" widget: a day number or Unset
    pc,             \* position of the normaliser / formatter harness
    first,          \* result of format_ticker(ticker_input)
    second,         \* result of format_ticker(first.ticker)
    raw_info,       \* the provider's info mapping handed to the formatter
    financial_data  \* the formatted metrics built from raw_info

vars == <<now, cache, calls, runs, ticker_input, selected_range, start_pick,
          end_pick, pc, first, second, raw_info, financial_data>>

-----------------------------------------------------------------------------
(* Bounds of the model.                                                    *)

\* longest ticker text enumerated exhaustively
MaxLen == 3
\* most get_stock_data calls in one behaviour of the cache specification
MaxCalls == 3
\* most script runs in one behaviour of the page specification
MaxRuns == 3
\* most script runs in one behaviour of the symbol-entry specification
MaxEntries == 2
\* largest |dividendYield| enumerated, in units of 1/10000
MaxYield == 60

-----------------------------------------------------------------------------
(* Python strings: str.upper, str.strip, re.match.                         *)

LowerCase == <<"a","b","c","d","e","f","g","h","i","j","k","l","m",
               "n","o","p","q","r","s","t","u","v","w","x","y","z">>
UpperCase == <<"A","B","C","D","E","F","G","H","I","J","K","L","M",
               "N","O","P","Q","R","S","T","U","V","W","X","Y","Z">>

IsLower(c) == \E i \in 1..26 : LowerCase[i] = c
IsAZ(c) == \E i \in 1..26 : UpperCase[i] = c
IsSpace(c) == c \in {" ", "\t", "\n"}

upper_char(c) ==
    IF IsLower(c) THEN UpperCase[CHOOSE i \in 1..26 : LowerCase[i] = c] ELSE c

\* str.upper()
upper(s) == [i \in 1..Len(s) |-> upper_char(s[i])]

RECURSIVE lstrip(_)
lstrip(s) == IF s # <<>> /\ IsSpace(Head(s)) THEN lstrip(Tail(s)) ELSE s

RECURSIVE rstrip(_)
rstrip(s) ==
    IF s # <<>> /\ IsSpace(s[Len(s)]) THEN rstrip(SubSeq(s, 1, Len(s) - 1)) ELSE s

\* str.strip()
strip(s) == rstrip(lstrip(s))

\* the pattern written with a character class that lets the dot through
indian_stock_pattern_dotted(t) ==
    t # <<>> /\ \A k \in 1..Len(t) : IsAZ(t[k]) \/ t[k] = "."

\* re.match(r'^[A-Z]+$', t): one or more of A-Z; '$' also matches just before
\* a final newline.
indian_stock_pattern(t) ==
    LET body == IF t # <<>> /\ t[Len(t)] = "\n" THEN SubSeq(t, 1, Len(t) - 1) ELSE t
    IN  body # <<>> /\ \A i \in 1..Len(body) : IsAZ(body[i])

\* the list of symbols format_ticker never suffixes
AllowList ==
    { <<"A","A","P","L">>, <<"M","S","F","T">>, <<"A","M","Z","N">>,
      <<"G","O","O","G","L">>, <<"M","E","T","A">>, <<"T","S","L","A">>,
      <<"N","F","L","X">> }

NS == <<".","N","S">>

-----------------------------------------------------------------------------
(* format_ticker.                                                          *)
(* What yf.Ticker(S.NS).info does is an input of the call:                 *)
(*   "raise"      reading .info raises                                     *)
(*   "none"       .info is None                                            *)
(*   "empty"      .info is {}                                              *)
(*   "noname"     .info is a non-empty mapping without 'shortName'         *)
(*   "nullname"   .info has 'shortName': None                              *)
(*   "emptyname"  .info has 'shortName': ''                                *)
(*   "name"       .info has a non-empty 'shortName'                        *)

LookupOutcomes ==
    {"raise", "none", "empty", "noname", "nullname", "emptyname", "name"}

\* bool(info)
info_truthy(o) == o \in {"noname", "nullname", "emptyname", "name"}

\* 'shortName' in info
has_shortName(o) == o \in {"nullname", "emptyname", "name"}

\* line 177 without its test against the list
disambiguates_any(t) == indian_stock_pattern(t)

\* whether the body of the if at line 177 is entered
disambiguates(t) == indian_stock_pattern(t) /\ t \notin AllowList

\* the try block of lines 179-186: TRUE when it returns the suffixed symbol
nse_exists(o) == o # "raise" /\ info_truthy(o) /\ has_shortName(o)

\* format_ticker(ticker) with the provider answering `o` if it is asked:
\* the returned symbol, the number of provider lookups made and the number
\* of messages shown to the user.
format_ticker(ticker, o) ==
    LET t == strip(upper(ticker))
    IN  IF disambiguates(t)
        THEN [ticker |-> IF nse_exists(o) THEN t \o NS ELSE t,
              lookups |-> 1, answer |-> o, shown |-> 0]
        ELSE [ticker |-> t, lookups |-> 0, answer |-> "unasked", shown |-> 0]

NotCalled == [ticker |-> <<>>, lookups |-> 0, answer |-> "unasked", shown |-> 0]

-----------------------------------------------------------------------------
(* Python values as the formatter sees them.                               *)
(* An int carries its value in n; a float carries value * 10000 in n, so   *)
(* 0.0234 is Float(234).  Absent stands for a key the mapping lacks.        *)

None_ == [t |-> "None", n |-> 0, s |-> ""]
Absent == [t |-> "absent", n |-> 0, s |-> ""]
Str(x) == [t |-> "str", n |-> 0, s |-> x]
Int_(k) == [t |-> "int", n |-> k, s |-> ""]
Float(k) == [t |-> "float", n |-> k, s |-> ""]

\* isinstance(value, (int, float))
is_number(v) == v.t \in {"int", "float"}

\* bool(value) of a number
truthy(v) == v.n # 0

\* info.get(key, "N/A")
get(info, key) == IF info[key] = Absent THEN Str("N/A") ELSE info[key]

Abs(k) == IF k < 0 THEN -k ELSE k

\* two digits of a number below 100
two_digits(k) == IF k < 10 THEN "0" \o ToString(k) ELSE ToString(k)

\* the text of h hundredths with two decimals, as '.2f' prints it
hundredths(h) ==
    (IF h < 0 THEN "-" ELSE "")
        \o ToString(Abs(h) \div 100) \o "." \o two_digits(Abs(h) % 100)

\* q / d rounded to the nearest integer; an exact half, which no value of
\* this model is, goes to the even neighbour
round_div(q, d) ==
    LET lo == q \div d
        r2 == 2 * (q % d)
    IN  IF r2 > d \/ (r2 = d /\ lo % 2 = 1) THEN lo + 1 ELSE lo

\* f"{value:.2f}"
fixed2(v) ==
    IF v.t = "int" THEN hundredths(v.n * 100) ELSE hundredths(round_div(v.n, 100))

\* f"{value*100:.2f}%"
percent(v) ==
    (IF v.t = "int" THEN hundredths(v.n * 10000) ELSE hundredths(v.n)) \o "%"

Billion == 1000 * 1000 * 1000
Million == 1000 * 1000

\* lines 51-55, the "Market Cap" branch.  A float of this model is below
\* 214749, so only an int can reach the two thresholds.
market_cap(v) ==
    IF v.t = "int" /\ v.n >= Billion
    THEN Str("$" \o hundredths(round_div(v.n, Billion \div 100)) \o "B")
    ELSE IF v.t = "int" /\ v.n >= Million
    THEN Str("$" \o hundredths(round_div(v.n, Million \div 100)) \o "M")
    ELSE v

\* line 57, the "Dividend Yield" branch for a number
dividend_yield(v) == IF truthy(v) THEN Str(percent(v)) ELSE Str("N/A")

\* the body of the loop at lines 50-59 for one entry of financial_data
format_value(key, value) ==
    IF key = "Market Cap" /\ is_number(value) THEN market_cap(value)
    ELSE IF key = "Dividend Yield" /\ is_number(value) THEN dividend_yield(value)
    ELSE IF is_number(value) THEN Str(fixed2(value))
    ELSE value

\* lines 35-65: three of the eleven metrics, one for each branch of the
\* loop; the other eight are formatted as "Beta" is.
financial_df(info) ==
    [ MarketCap |-> format_value("Market Cap", get(info, "marketCap")),
      DividendYield |-> format_value("Dividend Yield", get(info, "dividendYield")),
      Beta |-> format_value("Beta", get(info, "beta")) ]

-----------------------------------------------------------------------------
(* get_stock_data and the st.cache_data wrapper around it.                 *)
(* The provider's behaviour is an input of the call: `h` is what           *)
(* stock.history does ("raise", "empty" or "rows"), `i` what reading       *)
(* stock.info does: [raises, info].                                        *)

TTL == 3600

NoData == <<None_, None_, None_>>

Rows == [t |-> "DataFrame", n |-> 1, s |-> ""]

ErrorRetrieving == "Error retrieving data"

\* get_stock_data with the try block closed after the history request, so
\* that an exception of stock.info leaves the function
get_stock_data_unguarded(ticker, start_date, end_date, h, i) ==
    IF h = "raise"
    THEN [value |-> NoData, messages |-> <<ErrorRetrieving>>,
          history |-> 1, info |-> 0, raised |-> FALSE]
    ELSE IF h = "empty"
    THEN [value |-> NoData, messages |-> <<>>,
          history |-> 1, info |-> 0, raised |-> FALSE]
    ELSE IF i.raises
    THEN [value |-> NoData, messages |-> <<>>,
          history |-> 1, info |-> 1, raised |-> TRUE]
    ELSE [value |-> <<Rows, i.info, financial_df(i.info)>>, messages |-> <<>>,
          history |-> 1, info |-> 1, raised |-> FALSE]

\* the body of get_stock_data, lines 24-70: the returned tuple, the messages
\* it shows, how often it asked the provider for history and for info, and
\* whether an exception left the function.
get_stock_data(ticker, start_date, end_date, h, i) ==
    IF h = "raise"
    THEN [value |-> NoData, messages |-> <<ErrorRetrieving>>,
          history |-> 1, info |-> 0, raised |-> FALSE]
    ELSE IF h = "empty"
    THEN [value |-> NoData, messages |-> <<>>,
          history |-> 1, info |-> 0, raised |-> FALSE]
    ELSE IF i.raises
    THEN [value |-> NoData, messages |-> <<ErrorRetrieving>>,
          history |-> 1, info |-> 1, raised |-> FALSE]
    ELSE [value |-> <<Rows, i.info, financial_df(i.info)>>, messages |-> <<>>,
          history |-> 1, info |-> 1, raised |-> FALSE]

\* what the provider was asked and answered in a call: nothing on a hit,
\* history alone when history raised or was empty
Unasked == [history |-> "unasked", info |-> "unasked"]
asked(r, h, i) ==
    [history |-> h,
     info |-> IF r.info = 0 THEN "unasked"
              ELSE IF i.raises THEN "raise" ELSE "mapping"]

\* the time to live read as minutes
live_minutes(c, t, key) == key \in DOMAIN c /\ t - c[key].created < TTL \div 60

\* a store whose entries never expire
live_forever(c, t, key) == key \in DOMAIN c

\* whether the store holds an entry for key that has not expired at time t
live(c, t, key) == key \in DOMAIN c /\ t - c[key].created < TTL

\* what the wrapper stores for a finished call
entry(t, r) == [created |-> t, value |-> r.value, messages |-> r.messages]

\* a store that keeps only calls that returned data
store_data_only(c, t, key, r) ==
    IF r.raised \/ r.value = NoData THEN c
    ELSE [k \in DOMAIN c \cup {key} |-> IF k = key THEN entry(t, r) ELSE c[k]]

\* the store after a call that ran the function and returned r
store(c, t, key, r) ==
    IF r.raised THEN c
    ELSE [k \in DOMAIN c \cup {key} |-> IF k = key THEN entry(t, r) ELSE c[k]]

\* @st.cache_data(ttl=3600) around get_stock_data, line 22: one call at time
\* t with the store c.  A live entry is returned (its messages replayed)
\* without running the function; otherwise the function runs and its result
\* replaces whatever the store held for the key.
cache_data(c, t, key, h, i) ==
    IF live(c, t, key)
    THEN [cache |-> c, key |-> key, time |-> t, hit |-> TRUE,
          created |-> c[key].created, value |-> c[key].value,
          messages |-> c[key].messages, history |-> 0, info |-> 0,
          raised |-> FALSE, asked |-> Unasked]
    ELSE LET r == get_stock_data(key[1], key[2], key[3], h, i)
         IN  [cache |-> store(c, t, key, r), key |-> key, time |-> t,
              hit |-> FALSE, created |-> t, value |-> r.value,
              messages |-> r.messages, history |-> r.history,
              info |-> r.info, raised |-> r.raised, asked |-> asked(r, h, i)]

-----------------------------------------------------------------------------
(* Values the variables hold while an operation has not acted on them.     *)

Unset == [set |-> FALSE, day |-> 0]
Picked(d) == [set |-> TRUE, day |-> d]

Date(d) == [t |-> "date", v |-> d]
DateTime(t) == [t |-> "datetime", v |-> t]

AAPL == <<"A","A","P","L">>
TCS == <<"T","C","S">>

NoInfo == [marketCap |-> Absent, dividendYield |-> Absent, beta |-> Absent]
NoMetrics == [MarketCap |-> None_, DividendYield |-> None_, Beta |-> None_]

\* the widgets as the page first shows them, lines 193 and 219
WidgetsInit ==
    /\ ticker_input = AAPL
    /\ selected_range = "1 Month"
    /\ start_pick = Unset
    /\ end_pick = Unset

HarnessInit ==
    /\ pc = "start"
    /\ first = NotCalled
    /\ second = NotCalled
    /\ raw_info = NoInfo
    /\ financial_data = NoMetrics

StoreInit ==
    /\ now = 0
    /\ cache = <<>>
    /\ calls = <<>>
    /\ runs = <<>>

-----------------------------------------------------------------------------
(* SpecTicker: format_ticker applied to a text, then to its own result.    *)

Alphabet == {"a", "B", "1", ".", " "}

RECURSIVE Texts(_)
Texts(k) ==
    IF k = 0 THEN {<<>>}
    ELSE LET shorter == Texts(k - 1)
         IN  shorter \cup {Append(s, c) : s \in shorter, c \in Alphabet}

SampleTexts ==
    { <<" ","a","a","p","l"," ">>, AAPL, <<"m","s","f","t">>,
      <<"g","o","o","g","l">>, <<"t","c","s">>, <<"T","C","S",".","N","S">>,
      <<"\t","i","n","f","y","\n">>, <<"t","c","s",".","b","o">>,
      <<"a"," ","b">>, <<" ","\t","\n">> }

TickerTexts == Texts(MaxLen) \cup SampleTexts

TickerInit ==
    /\ ticker_input \in TickerTexts
    /\ selected_range = "1 Month"
    /\ start_pick = Unset
    /\ end_pick = Unset
    /\ HarnessInit
    /\ StoreInit

\* ticker = format_ticker(ticker_input), line 194
Normalize(o) ==
    /\ pc = "start"
    /\ pc' = "once"
    /\ first' = format_ticker(ticker_input, o)
    /\ UNCHANGED <<now, cache, calls, runs, ticker_input, selected_range,
                   start_pick, end_pick, second, raw_info, financial_data>>

\* format_ticker applied to the symbol it returned
Renormalize(o) ==
    /\ pc = "once"
    /\ pc' = "twice"
    /\ second' = format_ticker(first.ticker, o)
    /\ UNCHANGED <<now, cache, calls, runs, ticker_input, selected_range,
                   start_pick, end_pick, first, raw_info, financial_data>>

TickerNext ==
    \/ \E o \in LookupOutcomes : Normalize(o)
    \/ \E o \in LookupOutcomes : Renormalize(o)

SpecTicker == TickerInit /\ [][TickerNext]_vars

-----------------------------------------------------------------------------
(* SpecMetrics: one get_stock_data call on an empty store, over the        *)
(* provider's possible 'dividendYield', 'marketCap' and 'beta' fields.     *)

YieldValues ==
    {Absent, None_, Str("abc"), Str(""), Int_(0), Int_(1)}
        \cup {Float(k) : k \in -MaxYield..MaxYield} \cup {Float(234)}

MarketCapValues ==
    {Absent, None_, Int_(750000), Int_(2500000), Int_(2000000000)}

BetaValues == {Absent, Float(12345)}

InfoValues ==
    [marketCap : MarketCapValues, dividendYield : YieldValues, beta : BetaValues]

Day0 == Date(0)
MetricsKey == <<AAPL, Date(-365), Day0>>

MetricsInit ==
    /\ raw_info \in InfoValues
    /\ pc = "start"
    /\ first = NotCalled
    /\ second = NotCalled
    /\ financial_data = NoMetrics
    /\ WidgetsInit
    /\ StoreInit

\* get_stock_data(ticker, start, end) with the provider returning rows and
\* raw_info; financial_data is the third component of what it returns
BuildMetrics ==
    /\ pc = "start"
    /\ LET r == cache_data(cache, now, MetricsKey, "rows",
                           [raises |-> FALSE, info |-> raw_info])
       IN  /\ cache' = r.cache
           /\ calls' = Append(calls, [r EXCEPT !.cache = <<>>])
           /\ financial_data' = r.value[3]
    /\ pc' = "built"
    /\ UNCHANGED <<now, runs, ticker_input, selected_range, start_pick,
                   end_pick, first, second, raw_info>>

MetricsNext == BuildMetrics

SpecMetrics == MetricsInit /\ [][MetricsNext]_vars

-----------------------------------------------------------------------------
(* The clock.  It advances by one step between two operations; the steps   *)
(* put two operations one second, TTL - 1 seconds, or (over two steps)     *)
(* TTL and more seconds apart.                                             *)

ClockSteps == {1, TTL - 1}

\* the time of the latest call or script run
LastTime ==
    IF calls # <<>> THEN calls[Len(calls)].time
    ELSE IF runs # <<>> THEN runs[Len(runs)].today
    ELSE 0

Advance(d) ==
    /\ now = LastTime
    /\ Len(calls) < MaxCalls
    /\ Len(runs) < MaxRuns
    /\ now' = now + d
    /\ UNCHANGED <<cache, calls, runs, ticker_input, selected_range,
                   start_pick, end_pick, pc, first, second, raw_info,
                   financial_data>>

-----------------------------------------------------------------------------
(* SpecCache: calls of the memoised get_stock_data.                        *)

SampleInfo ==
    { [marketCap |-> Int_(2500000), dividendYield |-> Float(234), beta |-> Absent],
      [marketCap |-> Absent, dividendYield |-> None_, beta |-> Float(12345)] }

HistoryAnswers == {"raise", "empty", "rows"}

InfoAnswers ==
    {[raises |-> TRUE, info |-> NoInfo]}
        \cup {[raises |-> FALSE, info |-> f] : f \in SampleInfo}

CacheKeys == { <<AAPL, Date(-365), Day0>>, <<TCS \o NS, Date(-365), Day0>> }

CacheInit == WidgetsInit /\ HarnessInit /\ StoreInit

\* one call get_stock_data(ticker, start_date, end_date) at the present time
GetStockData(key, h, i) ==
    /\ Len(calls) < MaxCalls
    /\ LET r == cache_data(cache, now, key, h, i)
       IN  /\ cache' = r.cache
           /\ calls' = Append(calls, [r EXCEPT !.cache = <<>>])
    /\ UNCHANGED <<now, runs, ticker_input, selected_range, start_pick,
                   end_pick, pc, first, second, raw_info, financial_data>>

CacheNext ==
    \/ \E d \in ClockSteps : Advance(d)
    \/ \E key \in CacheKeys, h \in HistoryAnswers, i \in InfoAnswers :
          GetStockData(key, h, i)

SpecCache == CacheInit /\ [][CacheNext]_vars

-----------------------------------------------------------------------------
(* SpecPage: script runs of the page.  Streamlit runs the whole script     *)
(* when the page loads and after every change of a widget.                 *)

SecondsPerDay == 24 * 60 * 60

\* the date of a datetime
date_of(t) == t \div SecondsPerDay

Periods == {"1 Month", "3 Months", "6 Months", "1 Year", "5 Years", "Custom"}

\* the days each preset reaches back, lines 210-217
preset_days(p) ==
    CASE p = "1 Month" -> 30
      [] p = "3 Months" -> 90
      [] p = "6 Months" -> 180
      [] p = "1 Year" -> 365
      [] p = "5 Years" -> 365 * 5

\* date_ranges[p] for today = datetime.now()
date_ranges(today, p) == today - preset_days(p) * SecondsPerDay

\* lines 221-229: the start date handed to get_stock_data
start_date_of(today, sr, sp) ==
    IF sr = "Custom"
    THEN Date(IF sp.set THEN sp.day ELSE date_of(today - 365 * SecondsPerDay))
    ELSE DateTime(date_ranges(today, sr))

\* lines 221-229: the end date handed to get_stock_data
end_date_of(today, sr, ep) ==
    IF sr = "Custom"
    THEN Date(IF ep.set THEN ep.day ELSE date_of(today))
    ELSE DateTime(today)

NoFetch ==
    [cache |-> <<>>, key |-> <<<<>>, Day0, Day0>>, time |-> 0, hit |-> FALSE,
     created |-> 0, value |-> NoData, messages |-> <<>>, history |-> 0,
     info |-> 0, raised |-> FALSE, asked |-> Unasked]

NoDataFound == "No data found for ticker"
Instructions == "Enter a stock symbol in the sidebar to begin analysis."

\* lines 246-341: the view the main content ends in, given the ticker and
\* what get_stock_data returned (r.raised: it did not return)
main_content(ticker, r) ==
    IF ticker = <<>> THEN "instructions"
    ELSE IF r.raised THEN "crash"
    ELSE IF r.value[1] # None_ /\ r.value[1].n > 0 THEN "dashboard"
    ELSE "no_data"

\* one run of the script, lines 191-341, at time `now` with the widgets
\* holding ti, sr, sp, ep and the provider answering o, h, i if asked
script(ti, sr, sp, ep, o, h, i) ==
    LET ft == format_ticker(ti, o)
        today == now
        start_date == start_date_of(today, sr, sp)
        end_date == end_date_of(today, sr, ep)
        r == IF ft.ticker # <<>>
             THEN cache_data(cache, now, <<ft.ticker, start_date, end_date>>, h, i)
             ELSE [NoFetch EXCEPT !.cache = cache]
        view == main_content(ft.ticker, r)
    IN  [cache |-> r.cache,
         run |-> [input |-> ti, format |-> ft, period |-> sr, today |-> today,
                  start_date |-> start_date, end_date |-> end_date,
                  fetched |-> ft.ticker # <<>>,
                  fetch |-> [r EXCEPT !.cache = <<>>],
                  view |-> view,
                  messages |-> r.messages \o
                      (CASE view = "no_data" -> <<NoDataFound>>
                         [] view = "instructions" -> <<Instructions>>
                         [] OTHER -> <<>>)]]

\* the script runs on the widget values ti, sr, sp, ep, which the widgets keep
Run(ti, sr, sp, ep, o, h, i) ==
    /\ Len(runs) < MaxRuns
    /\ IF runs = <<>> THEN TRUE ELSE now > runs[Len(runs)].today
    /\ LET x == script(ti, sr, sp, ep, o, h, i)
       IN  /\ cache' = x.cache
           /\ runs' = Append(runs, x.run)
    /\ ticker_input' = ti
    /\ selected_range' = sr
    /\ start_pick' = sp
    /\ end_pick' = ep
    /\ UNCHANGED <<now, calls, pc, first, second, raw_info, financial_data>>

\* the page loads, or reruns with its widgets untouched
RunScript(o, h, i) ==
    Run(ticker_input, selected_range, start_pick, end_pick, o, h, i)

\* the user enters a symbol, line 193
TypeTicker(text, o, h, i) ==
    /\ runs # <<>>
    /\ Run(text, selected_range, start_pick, end_pick, o, h, i)

\* the user selects a period, line 219; the date widgets exist only while
\* the period is Custom and lose their values when they disappear
SelectPeriod(p, o, h, i) ==
    /\ runs # <<>>
    /\ Run(ticker_input, p,
           IF p = "Custom" THEN start_pick ELSE Unset,
           IF p = "Custom" THEN end_pick ELSE Unset, o, h, i)

\* the user picks a start date, line 224
PickStart(d, o, h, i) ==
    /\ runs # <<>>
    /\ selected_range = "Custom"
    /\ Run(ticker_input, selected_range, Picked(d), end_pick, o, h, i)

\* the user picks an end date, line 226
PickEnd(d, o, h, i) ==
    /\ runs # <<>>
    /\ selected_range = "Custom"
    /\ Run(ticker_input, selected_range, start_pick, Picked(d), o, h, i)

PageTexts ==
    { <<>>, <<" ","\t">>, <<"a","a","p","l">>, <<" ","M","s","f","t"," ">>,
      <<"t","c","s">>, <<"t","c","s",".","n","s">>, <<"a","1">>,
      <<"b","r","k"," ","b">> }

PageLookups == {"raise", "name"}

PageInfo ==
    { [raises |-> TRUE, info |-> NoInfo],
      [raises |-> FALSE,
       info |-> [marketCap |-> Int_(2500000), dividendYield |-> Float(234),
                 beta |-> Absent]] }

\* days the user picks in the Custom date widgets, around day 0
PickDays == {-1, 1}

PageInit == WidgetsInit /\ HarnessInit /\ StoreInit

PageNext ==
    \/ \E d \in ClockSteps : Advance(d)
    \/ \E o \in PageLookups, h \in HistoryAnswers, i \in PageInfo :
          RunScript(o, h, i)
    \/ \E text \in PageTexts, o \in PageLookups, h \in HistoryAnswers,
          i \in PageInfo : TypeTicker(text, o, h, i)
    \/ \E p \in Periods, o \in PageLookups, h \in HistoryAnswers,
          i \in PageInfo : SelectPeriod(p, o, h, i)
    \/ \E d \in PickDays, o \in PageLookups, h \in HistoryAnswers,
          i \in PageInfo : PickStart(d, o, h, i)
    \/ \E d \in PickDays, o \in PageLookups, h \in HistoryAnswers,
          i \in PageInfo : PickEnd(d, o, h, i)

SpecPage == PageInit /\ [][PageNext]_vars

-----------------------------------------------------------------------------
(* SpecSymbol: the page loads and the user enters symbols, the period      *)
(* staying as the page first shows it.                                     *)

LoadPage(o, h, i) ==
    /\ Len(runs) < MaxEntries
    /\ RunScript(o, h, i)

EnterSymbol(text, o, h, i) ==
    /\ Len(runs) < MaxEntries
    /\ TypeTicker(text, o, h, i)

SymbolNext ==
    \/ \E d \in ClockSteps : Advance(d)
    \/ \E o \in PageLookups, h \in HistoryAnswers, i \in PageInfo :
          LoadPage(o, h, i)
    \/ \E text \in PageTexts, o \in PageLookups, h \in HistoryAnswers,
          i \in PageInfo : EnterSymbol(text, o, h, i)

SpecSymbol == PageInit /\ [][SymbolNext]_vars

-----------------------------------------------------------------------------
(* Properties of get_stock_data under SpecCache.                           *)

Calls == 1..Len(calls)

\* the end of the time to live of the entry a call stored or returned
expiry(c) == c.created + TTL

\* call i is the latest call before j made with j's key
latest_before(i, j) ==
    /\ i < j
    /\ calls[i].key = calls[j].key
    /\ \A k \in Calls : i < k /\ k < j => calls[k].key # calls[j].key

\* C1: of two calls with the same (ticker, start, end), the second made
\* within the time to live of the entry the first stored or returned asks
\* the provider for neither history nor info and returns what the first
\* returned.  The time to live runs from the call that stored the entry; a
\* hit does not renew it.
CacheHit ==
    \A i \in Calls, j \in Calls :
        (i < j /\ calls[i].key = calls[j].key /\ calls[j].time < expiry(calls[i]))
            => /\ calls[j].hit
               /\ calls[j].history = 0
               /\ calls[j].info = 0
               /\ calls[j].value = calls[i].value

\* a call that stored data, and a later call within its time to live, at a
\* later time, that returned the stored data
CacheHitWitness ==
    \E i \in Calls, j \in Calls :
        /\ i < j
        /\ calls[i].key = calls[j].key
        /\ ~calls[i].hit
        /\ calls[i].value # NoData
        /\ calls[j].time = calls[i].time + (TTL - 1)
        /\ calls[j].hit
        /\ calls[j].value = calls[i].value

\* C2: a call made when the time to live of the entry for its key has
\* elapsed asks the provider again although the key is the same; the entry
\* is looked at only by this call, and the new result replaces it.
CacheExpiry ==
    \A i \in Calls, j \in Calls :
        (latest_before(i, j) /\ calls[j].time >= expiry(calls[i]))
            => /\ ~calls[j].hit
               /\ calls[j].history = 1
               /\ calls[j].created = calls[j].time
               /\ (\A k \in Calls : k > j => calls[k].key # calls[j].key)
                     => /\ calls[j].key \in DOMAIN cache
                        /\ cache[calls[j].key] =
                              [created |-> calls[j].time,
                               value |-> calls[j].value,
                               messages |-> calls[j].messages]

\* an entry with data expired and the next call for its key fetched a
\* different result, which the store now holds
CacheExpiryWitness ==
    \E i \in Calls, j \in Calls :
        /\ latest_before(i, j)
        /\ j = Len(calls)
        /\ calls[i].value # NoData
        /\ calls[j].time = expiry(calls[i])
        /\ calls[j].history = 1
        /\ calls[j].value # calls[i].value
        /\ cache[calls[j].key].value = calls[j].value

\* a call in which the provider returned no rows or raised
failed(c) ==
    \/ c.asked.history \in {"raise", "empty"}
    \/ c.asked.info = "raise"

\* C10: after a call that returned (None, None, None), because the history
\* was empty or because the provider raised, every call with the same key
\* within the time to live returns (None, None, None) and asks the provider
\* nothing; the provider is asked again for that key only once the time to
\* live has elapsed.
FailuresCached ==
    \A i \in Calls, j \in Calls :
        (i < j /\ calls[i].key = calls[j].key)
            => /\ failed(calls[i]) => calls[i].value = NoData
               /\ (calls[i].value = NoData /\ calls[j].time < expiry(calls[i]))
                     => /\ calls[j].value = NoData
                        /\ calls[j].history = 0
                        /\ calls[j].info = 0
               /\ (calls[i].value = NoData /\ latest_before(i, j)
                        /\ calls[j].history > 0)
                     => calls[j].time >= expiry(calls[i])

\* a call in which the provider raised, followed TTL - 1 seconds later by a
\* call with its key that returned the stored (None, None, None)
FailuresCachedWitness ==
    \E i \in Calls, j \in Calls :
        /\ latest_before(i, j)
        /\ calls[i].asked.info = "raise"
        /\ calls[j].time = calls[i].time + (TTL - 1)
        /\ calls[j].hit
        /\ calls[j].value = NoData
        /\ calls[j].history = 0

-----------------------------------------------------------------------------
(* Properties of format_ticker under SpecTicker.                           *)

\* the uppercased, trimmed form of a text
normal_form(text) == strip(upper(text))

only_letters(t) == t # <<>> /\ \A k \in 1..Len(t) : IsAZ(t[k])

\* C4: for an input whose uppercased, trimmed form S is letters only and not
\* on the list, format_ticker returns S.NS exactly when the lookup of S.NS
\* succeeds with a non-empty company name; when the lookup raises, returns
\* nothing, or returns no or an empty company name, it returns S, and shows
\* the user nothing.
Disambiguation ==
    LET S == normal_form(ticker_input)
    IN  (pc # "start" /\ only_letters(S) /\ S \notin AllowList)
            => /\ first.ticker = S \o NS <=> first.answer = "name"
               /\ first.answer # "name" => first.ticker = S
               /\ first.shown = 0

\* C5, as claimed: whatever the provider answers to each lookup,
\* format_ticker(format_ticker(s)) = format_ticker(s).
Idempotence == pc = "twice" => second.ticker = first.ticker

\* C5, amended: when the provider answers the lookup of the second call, if
\* it makes one, as it answered the lookup of the first call,
\* format_ticker(format_ticker(s)) = format_ticker(s).
IdempotenceSameAnswer ==
    (pc = "twice" /\ (second.lookups = 1 => second.answer = first.answer))
        => second.ticker = first.ticker

\* a symbol that got its suffix in the first call came back unchanged, and
\* without a lookup, from the second
IdempotenceWitness ==
    /\ pc = "twice"
    /\ first.lookups = 1
    /\ first.ticker = normal_form(ticker_input) \o NS
    /\ second.lookups = 0
    /\ second.ticker = first.ticker

-----------------------------------------------------------------------------
(* Properties of the metrics under SpecMetrics.                            *)

\* C7: "Dividend Yield" is value * 100 with two decimals and a percent sign
\* when the provider's dividendYield is a nonzero number, and "N/A" when the
\* field is missing, zero, None or not a number.
DividendYieldFormat ==
    LET v == raw_info.dividendYield
    IN  pc = "built"
            => financial_data.DividendYield =
                  IF is_number(v) /\ v.n # 0 THEN Str(percent(v)) ELSE Str("N/A")

-----------------------------------------------------------------------------
(* Properties of the script runs under SpecSymbol and SpecPage.            *)

Runs == 1..Len(runs)

shows(r, message) == \E k \in 1..Len(r.messages) : r.messages[k] = message

\* C3: when the provider returns an empty history, or raises in history() or
\* in info, get_stock_data returns (None, None, None) and no exception
\* leaves it; if it raised, "Error retrieving data" is shown; either way the
\* run ends in the "No data found for ticker" view.
UniformEmptyResult ==
    \A k \in Runs :
        LET r == runs[k]
        IN  (r.fetched /\ failed(r.fetch))
                => /\ r.fetch.value = NoData
                   /\ ~r.fetch.raised
                   /\ r.view = "no_data"
                   /\ shows(r, NoDataFound)
                   /\ (r.fetch.asked.history = "raise" \/ r.fetch.asked.info = "raise")
                         => shows(r, ErrorRetrieving)

\* a run in which reading stock.info raised ended in the "No data found" view
\* with the error shown
UniformEmptyResultWitness ==
    \E k \in Runs :
        /\ runs[k].fetch.asked.info = "raise"
        /\ runs[k].fetch.value = NoData
        /\ runs[k].view = "no_data"
        /\ shows(runs[k], ErrorRetrieving)

\* C6: when the uppercased, trimmed input is empty, is on the list, or holds
\* a character other than A-Z, format_ticker asks the provider nothing and
\* returns exactly the uppercased, trimmed input; for an empty or blank
\* input that is the empty string, the run calls get_stock_data not at all
\* and shows the instructions.
NoSpeculativeLookup ==
    \A k \in Runs :
        LET r == runs[k]
            S == normal_form(r.input)
        IN  /\ (S = <<>> \/ S \in AllowList \/ \E c \in 1..Len(S) : ~IsAZ(S[c]))
                  => r.format.lookups = 0 /\ r.format.ticker = S
            /\ S = <<>>
                  => /\ r.format.ticker = <<>>
                     /\ ~r.fetched
                     /\ r.fetch.history = 0 /\ r.fetch.info = 0
                     /\ r.view = "instructions"
                     /\ shows(r, Instructions)

\* a blank input shown the instructions, after a listed symbol was fetched
\* without a lookup
NoSpeculativeLookupWitness ==
    \E j \in Runs, k \in Runs :
        /\ runs[j].format.ticker \in AllowList
        /\ runs[j].format.lookups = 0
        /\ runs[j].fetched
        /\ runs[k].input # <<>>
        /\ normal_form(runs[k].input) = <<>>
        /\ runs[k].view = "instructions"

\* C8: in every run, for every period, the (start_date, end_date) pair handed
\* to get_stock_data has start_date <= end_date.
DateRangeOrdered ==
    \A k \in Runs :
        runs[k].fetched => runs[k].start_date.v <= runs[k].end_date.v

\* C9: two successive runs within the time to live with the same ticker and
\* the same preset period call get_stock_data with the same key, so the
\* second is a hit and asks the provider nothing.
RepeatReusesCache ==
    \A k \in Runs :
        (/\ k > 1
         /\ runs[k - 1].fetched /\ runs[k].fetched
         /\ runs[k].format.ticker = runs[k - 1].format.ticker
         /\ runs[k].period = runs[k - 1].period
         /\ runs[k].period # "Custom"
         /\ runs[k].today - runs[k - 1].today < TTL)
            => /\ runs[k].fetch.key = runs[k - 1].fetch.key
               /\ runs[k].fetch.hit
               /\ runs[k].fetch.history = 0
               /\ runs[k].fetch.info = 0

====
